---- MODULE Spec2Model ----
(***************************************************************************)
(* Model of lidarr-import-extras (src/index.js): the webhook handler, the  *)
(* common-ancestor resolver, the path mapper, the extras classifier, the   *)
(* stale-extras remover and the recursive extras linker, over a small      *)
(* POSIX filesystem with hard links.                                       *)
(*                                                                         *)
(* Strings are sequences of one-character strings, so that split, join,    *)
(* extname, toLowerCase, startsWith and the flattened-name concatenation   *)
(* are computed character by character as the code computes them.          *)
(* A filesystem path (key of fs) is the sequence of its segment names.     *)
(* Paths are POSIX (path.sep = "/"), absolute and free of "." and "..".    *)
(***************************************************************************)
EXTENDS Integers, Sequences, FiniteSets, TLC

----------------------------------------------------------------------------
(* Bounds of the model (not program constants). *)

\* injected I/O failures (EACCES, EXDEV, EIO ...) per behaviour
MaxFaults == 1
\* webhook deliveries handled one after the other in SpecTwice
MaxRuns == 2
\* directory depth and number of the paths handed to findCommonParentDir
MaxDepth == 3
MaxPaths == 2
\* rules of the lists handed to applyPathMappings
MaxRules == 2

----------------------------------------------------------------------------
(* Strings *)

SEP == "/"
DASH == "-"
DOT == "."
EmptyStr == << >>

\* String.prototype.toLowerCase, on the alphabet of the model
LowerChar(c) ==
  CASE c = "L" -> "l"
    [] c = "O" -> "o"
    [] c = "G" -> "g"
    [] c = "J" -> "j"
    [] c = "P" -> "p"
    [] OTHER -> c

toLowerCase(s) == [i \in 1..Len(s) |-> LowerChar(s[i])]

startsWith(s, p) == Len(p) <= Len(s) /\ SubSeq(s, 1, Len(p)) = p

\* index of the last occurrence of character c in s, 0 when there is none
LastIndexOf(s, c) ==
  LET I == {i \in 1..Len(s) : s[i] = c}
  IN  IF I = {} THEN 0 ELSE CHOOSE i \in I : \A j \in I : j <= i

\* index of the first occurrence of character c in s, 0 when there is none
IndexOf(s, c) ==
  LET I == {i \in 1..Len(s) : s[i] = c}
  IN  IF I = {} THEN 0 ELSE CHOOSE i \in I : \A j \in I : i <= j

\* String.prototype.split(path.sep): "/a/b" -> <<"", "a", "b">>, "/" -> <<"", "">>,
\* "" -> <<"">>
\* (the argument is bound once: s is the string str)
RECURSIVE Split(_)
Split(str) ==
  CHOOSE parts \in
    { LET i == IndexOf(s, SEP)
      IN  IF i = 0 THEN << s >>
          ELSE << SubSeq(s, 1, i - 1) >> \o Split(SubSeq(s, i + 1, Len(s))) : s \in {str} } : TRUE

\* Array.prototype.join(path.sep)
RECURSIVE Join(_)
Join(parts) ==
  IF Len(parts) = 0 THEN EmptyStr
  ELSE IF Len(parts) = 1 THEN parts[1]
  ELSE parts[1] \o << SEP >> \o Join(Tail(parts))

\* the segments of a path string: empty and "." segments dropped
Segments(s) == SelectSeq(Split(s), LAMBDA x : x # EmptyStr /\ x # << DOT >>)

isAbsolute(s) == Len(s) > 0 /\ s[1] = SEP

\* path.normalize on POSIX (no ".." in the model's paths)
normalize(s) ==
  IF isAbsolute(s) THEN << SEP >> \o Join(Segments(s))
  ELSE IF Segments(s) = << >> THEN << DOT >>
  ELSE Join(Segments(s))

\* path.join(a, b)
pathJoin(a, b) ==
  IF a = EmptyStr THEN normalize(b)
  ELSE IF b = EmptyStr THEN normalize(a)
  ELSE normalize(a \o << SEP >> \o b)

\* path.resolve(p) for an absolute p
pathResolve(p) == normalize(p)

\* path.dirname(p): "/a/b" -> "/a", "/a" -> "/", "/" -> "/", "a" -> "."
dirname(p) ==
  LET i == LastIndexOf(p, SEP)
  IN  IF i = 0 THEN << DOT >>
      ELSE IF i = 1 THEN << SEP >>
      ELSE SubSeq(p, 1, i - 1)

\* path.extname(name) for a name without separators
extname(name) ==
  LET i == LastIndexOf(name, DOT)
  IN  IF i = 0 \/ i = 1 THEN EmptyStr
      ELSE IF name = << DOT, DOT >> THEN EmptyStr
      ELSE SubSeq(name, i, Len(name))

\* the key of fs a path string names
FsPath(s) == Segments(s)

----------------------------------------------------------------------------
(* Program constants and pure functions *)

EXTRA_ALLOWLIST ==
  { << ".", "c", "u", "e" >>,
    << ".", "l", "o", "g" >>,
    << ".", "p", "n", "g" >>,
    << ".", "j", "p", "g" >>,
    << ".", "j", "p", "e", "g" >>,
    << ".", "t", "x", "t" >>,
    << ".", "m", "3", "u" >>,
    << ".", "m", "3", "u", "8" >>,
    << ".", "y", "m", "l" >>,
    << ".", "y", "a", "m", "l" >> }

isExtraFile(filename) == toLowerCase(extname(filename)) \in EXTRA_ALLOWLIST

DOLLAR == "$"

\* GetSubstitution of String.prototype.replace for a string pattern: in the
\* replacement, $$ is "$" and $& the matched text; any other "$" of the
\* model's alphabet stands for itself (the patterns for the text before and
\* after the match use quote characters the model's strings do not contain)
RECURSIVE GetSubstitution(_, _)
GetSubstitution(repl, matched) ==
  IF Len(repl) = 0 THEN EmptyStr
  ELSE IF repl[1] = DOLLAR /\ Len(repl) >= 2 /\ repl[2] \in {DOLLAR, "&"}
    THEN (IF repl[2] = DOLLAR THEN << DOLLAR >> ELSE matched)
         \o GetSubstitution(SubSeq(repl, 3, Len(repl)), matched)
  ELSE << repl[1] >> \o GetSubstitution(Tail(repl), matched)

\* position of the first occurrence of pat in s, 0 when there is none
FirstOccurrence(s, pat) ==
  LET I == {i \in 1..(Len(s) - Len(pat) + 1) : SubSeq(s, i, i + Len(pat) - 1) = pat}
  IN  IF I = {} THEN 0 ELSE CHOOSE i \in I : \A j \in I : i <= j

\* s.replace(pat, repl) for strings pat and repl: the first occurrence only
jsReplace(s, pat, repl) ==
  LET i == FirstOccurrence(s, pat)
  IN  IF i = 0 THEN s
      ELSE LET before == SubSeq(s, 1, i - 1)
               after == SubSeq(s, i + Len(pat), Len(s))
           IN  before \o GetSubstitution(repl, pat) \o after

\* applyPathMappings(inputPath, mappings): the first rule whose `from` is a
\* prefix of inputPath is applied with inputPath.replace(map.from, map.to)
RECURSIVE applyPathMappings(_, _)
applyPathMappings(inputPath, mappings) ==
  IF Len(mappings) = 0 THEN inputPath
  ELSE IF startsWith(inputPath, mappings[1].from)
       THEN jsReplace(inputPath, mappings[1].from, mappings[1].to)
       ELSE applyPathMappings(inputPath, Tail(mappings))

\* values of findCommonParentDir: a thrown Error, null, or a string
Thrown == [kind |-> "throw", str |-> EmptyStr]
Null == [kind |-> "null", str |-> EmptyStr]
StrVal(s) == [kind |-> "str", str |-> s]

\* JavaScript truthiness of such a value: null and "" are falsy
Truthy(v) == v.kind = "str" /\ v.str # EmptyStr

Min(S) == CHOOSE x \in S : \A y \in S : x <= y

\* the loop without its break: every position where all agree is kept
commonParts_NoBreak(splitDirs) ==
  LET minLen == Min({Len(splitDirs[k]) : k \in 1..Len(splitDirs)})
      agree(i) == \A k \in 1..Len(splitDirs) : splitDirs[k][i] = splitDirs[1][i]
      F[i \in 0..minLen] ==
        IF i = 0 THEN << >>
        ELSE IF agree(i) THEN Append(F[i - 1], splitDirs[1][i]) ELSE F[i - 1]
  IN  F[minLen]

\* the loop of findCommonParentDir: the parts common to all, up to minLen
commonParts(splitDirs) ==
  LET minLen == Min({Len(splitDirs[k]) : k \in 1..Len(splitDirs)})
      agree(i) == \A k \in 1..Len(splitDirs) : splitDirs[k][i] = splitDirs[1][i]
      N == {n \in 0..minLen : \A i \in 1..n : agree(i)}
      n == CHOOSE x \in N : \A y \in N : y <= x
  IN  SubSeq(splitDirs[1], 1, n)

findCommonParentDir(paths) ==
  IF Len(paths) = 0 THEN Thrown
  ELSE LET splitDirs == [k \in 1..Len(paths) |-> Split(dirname(pathResolve(paths[k])))]
           cp == commonParts(splitDirs)
       IN  IF Len(cp) = 0 THEN Null ELSE StrVal(Join(cp))

\* flatName with the directory prefix forgotten
flatName_NoBase(base, name) == name

\* flatName with prefix and name in the wrong order
flatName_Swapped(base, name) ==
  IF base = EmptyStr THEN name ELSE name \o << DASH >> \o base

\* destination name of linkExtrasRecursive: base ? `${base}-${name}` : name
flatName(base, name) ==
  IF base = EmptyStr THEN name ELSE base \o << DASH >> \o name

----------------------------------------------------------------------------
(* Names and path strings of the model's filesystem *)

AbsPath(names) == << SEP >> \o Join(names)

n_m == << "m" >>
n_a == << "a" >>
n_w == << "w" >>
n_t == << "t" >>
n_u == << "u" >>
n_d == << "d" >>
n_e == << "e" >>
n_s == << "s" >>
n_track == << "1", ".", "m", "p", "3" >>
n_track2 == << "2", ".", "m", "p", "3" >>
n_cjpg == << "c", ".", "j", "p", "g" >>
n_lLOG == << "l", ".", "L", "O", "G" >>
n_dlLOG == << "d", "-", "l", ".", "L", "O", "G" >>
n_rnfo == << "r", ".", "n", "f", "o" >>
n_otxt == << "o", ".", "t", "x", "t" >>
n_xlog == << "x", ".", "l", "o", "g" >>

Dir == [kind |-> "dir", ino |-> 0]
File(i) == [kind |-> "file", ino |-> i]

\* directories that always exist: the album /m/a and the download /w/t
BaseFs ==
  ( << >> :> Dir ) @@ ( << n_m >> :> Dir ) @@ ( << n_m, n_a >> :> Dir ) @@
  ( << n_w >> :> Dir ) @@ ( << n_w, n_t >> :> Dir )

\* optional parts of the source tree /w/t
SourceParts ==
  { ( << n_w, n_t, n_cjpg >> :> File(4) ),
    ( << n_w, n_t, n_d >> :> Dir ) @@ ( << n_w, n_t, n_d, n_lLOG >> :> File(5) ),
    ( << n_w, n_t, n_dlLOG >> :> File(6) ),
    ( << n_w, n_t, n_d >> :> Dir ) @@ ( << n_w, n_t, n_d, n_rnfo >> :> File(7) ),
    ( << n_w, n_t, n_d >> :> Dir ) @@ ( << n_w, n_t, n_d, n_e >> :> Dir ) @@
        ( << n_w, n_t, n_d, n_e, n_cjpg >> :> File(8) ) }

\* optional parts of the album directory /m/a
AlbumParts ==
  { ( << n_m, n_a, n_track >> :> File(1) ) @@ ( << n_m, n_a, n_s >> :> Dir ) @@
        ( << n_m, n_a, n_s, n_xlog >> :> File(2) ),
    ( << n_m, n_a, n_cjpg >> :> File(3) ) @@ ( << n_m, n_a, n_otxt >> :> File(9) ),
    ( << n_m, n_a, n_dlLOG >> :> Dir ) }

RECURSIVE Merge(_)
Merge(S) ==
  IF S = {} THEN BaseFs
  ELSE LET x == CHOOSE y \in S : TRUE IN x @@ Merge(S \ {x})

InitialFilesystems == {Merge(S \cup A) : S \in SUBSET SourceParts, A \in SUBSET AlbumParts}

----------------------------------------------------------------------------
(* Filesystem calls of fs/promises *)

Exists(f, p) == p \in DOMAIN f
IsDir(f, p) == Exists(f, p) /\ f[p].kind = "dir"
Front(p) == SubSeq(p, 1, Len(p) - 1)
Last(p) == p[Len(p)]
Children(f, p) == {q \in DOMAIN f : Len(q) = Len(p) + 1 /\ SubSeq(q, 1, Len(p)) = p}

\* fs.readdir(dir) and fs.readdir(dir, {withFileTypes: true})
readdirOk(f, p) == IsDir(f, p)
readdir(f, p) == {Last(q) : q \in Children(f, p)}
readdirTypes(f, p) == {[name |-> Last(q), kind |-> f[q].kind] : q \in Children(f, p)}

\* fs.unlink(p): ENOENT on a missing path, EISDIR on a directory
unlinkOk(f, p) == Exists(f, p) /\ f[p].kind # "dir"
unlink(f, p) == [q \in DOMAIN f \ {p} |-> f[q]]

\* fs.link(src, dst): ENOENT, EPERM on a directory, EEXIST on an existing dst
linkOk(f, src, dst) ==
  /\ Exists(f, src) /\ f[src].kind = "file"
  /\ dst # << >> /\ ~Exists(f, dst) /\ IsDir(f, Front(dst))
link(f, src, dst) == [q \in DOMAIN f \cup {dst} |-> IF q = dst THEN f[src] ELSE f[q]]

----------------------------------------------------------------------------
(* Configuration and the torrent client *)

\* cfg.pathMappings: the download client sees /q where this process sees /w
cfgPathMappings == << [from |-> << SEP, "q" >>, to |-> << SEP, "w" >>] >>

id_A == << "A" >>
id_B == << "B" >>
id_C == << "C" >>
id_S == << "S" >>
id_X == << "X" >>

\* what qBittorrent knows: torrents/info (save_path) and torrents/files (name)
Torrents ==
  ( id_A :> [save_path |-> << SEP, "q" >>,
             files |-> << Join(<< n_t, n_track >>), Join(<< n_t, n_cjpg >>),
                          Join(<< n_t, n_d, n_lLOG >>), Join(<< n_t, n_dlLOG >>),
                          Join(<< n_t, n_d, n_rnfo >>), Join(<< n_t, n_d, n_e, n_cjpg >>) >>] ) @@
  ( id_S :> [save_path |-> << SEP, "q" >>, files |-> << n_track >>] ) @@
  ( id_B :> [save_path |-> << SEP >>,
             files |-> << n_t \o << SEP >> \o n_track, n_u \o << SEP >> \o n_track2 >>] ) @@
  ( id_C :> [save_path |-> << SEP, "q" >>, files |-> << >>] )

\* request bodies of the webhook
TrackLists ==
  { << >>,
    << AbsPath(<< n_m, n_a, n_track >>) >>,
    << AbsPath(<< n_w, n_t, n_track >>), AbsPath(<< n_w, n_t, n_d, n_track2 >>) >>,
    << AbsPath(<< n_m, n_a, n_track >>), AbsPath(<< n_w, n_track2 >>) >>,
    << AbsPath(<< n_track >>) >> }

\* hasTracks = FALSE is a body without trackFiles, downloadId = "" one without
\* a download identifier
Bodies ==
  {b \in [eventType : {"Test", "Download"},
          hasTracks : BOOLEAN,
          trackFiles : TrackLists,
          downloadId : {EmptyStr, id_A, id_B, id_C, id_S, id_X}] :
     ~b.hasTracks => b.trackFiles = << >>}

----------------------------------------------------------------------------
(* State *)

VARIABLES
  fs,          \* the filesystem: path -> [kind, ino]
  pc,          \* per request: the await the handler is suspended at
  body,        \* per request: req.body
  albumPath,   \* per request: albumPath of the handler
  files,       \* per request: entries of removeExistingExtras not yet visited
  cur,         \* per request: [full] of the remover, [entryPath, dest] of the linker
  savePath,    \* per request: savePath of getTorrentFolder
  originalDir, \* per request: originalDir of the handler
  stack,       \* per request: the activations of linkExtrasRecursive
  ack,         \* per request: the status codes sent with res.status().send()
  result,      \* per request: "Test", "Rejected", "Done" or "Failed"
  failPc,      \* per request: where the error the handler caught was thrown
  failed,      \* per request: the filesystem calls that failed
  hist,        \* per request: fs at reception, after removal and at the end
  faultsLeft,  \* injected I/O failures still allowed
  nreq,        \* deliveries of this behaviour
  overlap,     \* whether a delivery is dispatched while another is in progress
  probe        \* a direct call of a pure function: its arguments and its value

vars == << fs, pc, body, albumPath, files, cur, savePath, originalDir, stack,
           ack, result, failPc, failed, hist, faultsLeft, nreq, overlap, probe >>

Reqs == 1..MaxRuns

NoBody == [eventType |-> "", hasTracks |-> FALSE, trackFiles |-> << >>, downloadId |-> EmptyStr]
NoCur == [full |-> EmptyStr, entryPath |-> EmptyStr, dest |-> EmptyStr]
NoProbe == [fn |-> "", args |-> << >>, given |-> << >>, value |-> Null]

InitRuns ==
  /\ pc = [r \in Reqs |-> "idle"]
  /\ body = [r \in Reqs |-> NoBody]
  /\ albumPath = [r \in Reqs |-> EmptyStr]
  /\ files = [r \in Reqs |-> {}]
  /\ cur = [r \in Reqs |-> NoCur]
  /\ savePath = [r \in Reqs |-> EmptyStr]
  /\ originalDir = [r \in Reqs |-> EmptyStr]
  /\ stack = [r \in Reqs |-> << >>]
  /\ ack = [r \in Reqs |-> << >>]
  /\ result = [r \in Reqs |-> ""]
  /\ failPc = [r \in Reqs |-> ""]
  /\ failed = [r \in Reqs |-> {}]
  /\ hist = [r \in Reqs |-> [start |-> BaseFs, rm |-> BaseFs, end |-> BaseFs]]

\* one delivery, with up to MaxFaults injected I/O failures
Init ==
  /\ fs \in InitialFilesystems
  /\ InitRuns
  /\ faultsLeft \in 0..MaxFaults
  /\ nreq = 1
  /\ overlap = FALSE
  /\ probe = NoProbe

\* MaxRuns deliveries of the same notification, one after the other, no
\* injected I/O failure
InitTwice ==
  /\ fs \in InitialFilesystems
  /\ InitRuns
  /\ faultsLeft = 0
  /\ nreq = MaxRuns
  /\ overlap = FALSE
  /\ probe = NoProbe

----------------------------------------------------------------------------
(* The webhook handler *)

\* res.status(code).send(...) that ends the handler; h is the record of the
\* filesystem states the request has seen
Respond(r, code, res, at, h) ==
  /\ ack' = [ack EXCEPT ![r] = Append(@, code)]
  /\ result' = [result EXCEPT ![r] = res]
  /\ failPc' = [failPc EXCEPT ![r] = at]
  /\ hist' = [hist EXCEPT ![r] = h]
  /\ pc' = [pc EXCEPT ![r] = "done"]

\* a catch block that reports the failure to the notifier
Catch_500(r, at) == Respond(r, 500, "Failed", at, [hist[r] EXCEPT !.end = fs])

\* a catch block that sends no response
Catch_Silent(r, at) ==
  /\ result' = [result EXCEPT ![r] = "Failed"]
  /\ failPc' = [failPc EXCEPT ![r] = at]
  /\ hist' = [hist EXCEPT ![r].end = fs]
  /\ pc' = [pc EXCEPT ![r] = "done"]
  /\ UNCHANGED ack

\* catch (err) { ...; res.status(200).send("OK") }
Catch(r, at) == Respond(r, 200, "Failed", at, [hist[r] EXCEPT !.end = fs])

\* if (!body.trackFiles || !body.downloadId)
InvalidPayload(b) == ~b.hasTracks \/ b.downloadId = EmptyStr

\* body.trackFiles.map((f) => f.path)
trackPaths(b) == b.trackFiles

\* the Test check precedes the payload check
Route_ValidateFirst(b) ==
  IF InvalidPayload(b) THEN "reject"
  ELSE IF b.eventType = "Test" THEN "test"
  ELSE "process"

\* if (body.eventType == "Test") ...; if (!body.trackFiles || !body.downloadId) ...
Route(b) ==
  IF b.eventType = "Test" THEN "test"
  ELSE IF InvalidPayload(b) THEN "reject"
  ELSE "process"

\* POST /webhook up to the first await: the Test short-circuit, the payload
\* check and findCommonParentDir over the track paths
Receive(r) ==
  /\ pc[r] = "idle"
  /\ r <= nreq
  /\ \A q \in Reqs : q < r => IF overlap THEN pc[q] # "idle" ELSE pc[q] = "done"
  /\ \E b \in (IF r = 1 THEN Bodies ELSE {body[1]}) :
       LET h0 == [start |-> fs, rm |-> fs, end |-> fs]
       IN
       /\ body' = [body EXCEPT ![r] = b]
       /\ IF Route(b) = "test"
            THEN Respond(r, 200, "Test", "", h0) /\ UNCHANGED albumPath
          ELSE IF Route(b) = "reject"
            THEN Respond(r, 400, "Rejected", "", h0) /\ UNCHANGED albumPath
          ELSE LET ap == findCommonParentDir(trackPaths(b))
               IN  IF ~Truthy(ap)
                     THEN Respond(r, 200, "Failed", "album", h0) /\ UNCHANGED albumPath
                     ELSE /\ albumPath' = [albumPath EXCEPT ![r] = ap.str]
                          /\ pc' = [pc EXCEPT ![r] = "rm_readdir"]
                          /\ hist' = [hist EXCEPT ![r] = h0]
                          /\ UNCHANGED << ack, result, failPc >>
  /\ UNCHANGED << fs, files, cur, savePath, originalDir, stack, failed, faultsLeft, nreq, overlap, probe >>

----------------------------------------------------------------------------
(* removeExistingExtras *)

Failure(op, path) == [op |-> op, path |-> path]
NoteFailure(r, op, path) == failed' = [failed EXCEPT ![r] = @ \cup {Failure(op, path)}]

\* an I/O failure the environment may inject into a call that would succeed
MayFault == faultsLeft > 0
Fault == faultsLeft' = faultsLeft - 1

\* const files = await fs.readdir(albumPath): a failure propagates to the handler
RmReaddir(r) ==
  /\ pc[r] = "rm_readdir"
  /\ LET p == FsPath(albumPath[r])
     IN  \/ /\ readdirOk(fs, p)
            /\ files' = [files EXCEPT ![r] = readdir(fs, p)]
            /\ pc' = [pc EXCEPT ![r] = "rm_loop"]
            /\ UNCHANGED << ack, result, failPc, hist, failed, faultsLeft >>
         \/ /\ ~readdirOk(fs, p) \/ MayFault
            /\ IF readdirOk(fs, p) THEN Fault ELSE UNCHANGED faultsLeft
            /\ NoteFailure(r, "readdir", albumPath[r])
            /\ Catch(r, "rm_readdir")
            /\ UNCHANGED files
  /\ UNCHANGED << fs, body, albumPath, cur, savePath, originalDir, stack, nreq, overlap, probe >>

\* the test of the remover without the classification
shouldRemove_AnyFile(st, file) == st.kind = "file"

\* if (st.isFile() && isExtraFile(file))
shouldRemove(st, file) == st.kind = "file" /\ isExtraFile(file)

\* the next file of the loop: const st = await fs.lstat(full), inside try
RmLstat(r) ==
  /\ pc[r] = "rm_loop"
  /\ \E file \in files[r] :
       LET full == pathJoin(albumPath[r], file)
           p == FsPath(full)
       IN
       /\ files' = [files EXCEPT ![r] = @ \ {file}]
       /\ \/ /\ Exists(fs, p)
             /\ IF shouldRemove(fs[p], file)
                  THEN /\ cur' = [cur EXCEPT ![r] = [NoCur EXCEPT !.full = full]]
                       /\ pc' = [pc EXCEPT ![r] = "rm_unlink"]
                  ELSE UNCHANGED << cur, pc >>
             /\ UNCHANGED << failed, faultsLeft >>
          \/ /\ ~Exists(fs, p) \/ MayFault
             /\ IF Exists(fs, p) THEN Fault ELSE UNCHANGED faultsLeft
             /\ NoteFailure(r, "lstat", full)
             /\ UNCHANGED << cur, pc >>
  /\ UNCHANGED << fs, body, albumPath, savePath, originalDir, stack, ack, result,
                  failPc, hist, nreq, overlap, probe >>

\* the unlink of the remover outside the try: a failure reaches the handler
RmUnlink_Propagates(r) ==
  /\ pc[r] = "rm_unlink"
  /\ LET p == FsPath(cur[r].full)
     IN  \/ /\ unlinkOk(fs, p)
            /\ fs' = unlink(fs, p)
            /\ pc' = [pc EXCEPT ![r] = "rm_loop"]
            /\ UNCHANGED << failed, faultsLeft, ack, result, failPc, hist >>
         \/ /\ ~unlinkOk(fs, p) \/ MayFault
            /\ IF unlinkOk(fs, p) THEN Fault ELSE UNCHANGED faultsLeft
            /\ NoteFailure(r, "unlink", cur[r].full)
            /\ Catch(r, "rm_unlink")
            /\ UNCHANGED fs
  /\ UNCHANGED << body, albumPath, files, cur, savePath, originalDir, stack, nreq, overlap, probe >>

\* await fs.unlink(full), inside try: a failure is swallowed by catch {}
RmUnlink(r) ==
  /\ pc[r] = "rm_unlink"
  /\ LET p == FsPath(cur[r].full)
     IN  \/ /\ unlinkOk(fs, p)
            /\ fs' = unlink(fs, p)
            /\ UNCHANGED << failed, faultsLeft >>
         \/ /\ ~unlinkOk(fs, p) \/ MayFault
            /\ IF unlinkOk(fs, p) THEN Fault ELSE UNCHANGED faultsLeft
            /\ NoteFailure(r, "unlink", cur[r].full)
            /\ UNCHANGED fs
  /\ pc' = [pc EXCEPT ![r] = "rm_loop"]
  /\ UNCHANGED << body, albumPath, files, cur, savePath, originalDir, stack, ack,
                  result, failPc, hist, nreq, overlap, probe >>

\* the loop is over: removeExistingExtras returns, the handler awaits qbtLogin
RmReturn(r) ==
  /\ pc[r] = "rm_loop"
  /\ files[r] = {}
  /\ pc' = [pc EXCEPT ![r] = "login"]
  /\ hist' = [hist EXCEPT ![r].rm = fs]
  /\ UNCHANGED << fs, body, albumPath, files, cur, savePath, originalDir, stack, ack,
                  result, failPc, failed, faultsLeft, nreq, overlap, probe >>

----------------------------------------------------------------------------
(* qbtLogin and getTorrentFolder *)

\* qbtLogin: the POST fails, or answers something other than "Ok."
Login(r) ==
  /\ pc[r] = "login"
  /\ \E ok \in BOOLEAN :
       IF ok THEN /\ pc' = [pc EXCEPT ![r] = "info"]
                  /\ UNCHANGED << ack, result, failPc, hist >>
             ELSE Catch(r, "login")
  /\ UNCHANGED << fs, body, albumPath, files, cur, savePath, originalDir, stack,
                  failed, faultsLeft, nreq, overlap, probe >>

\* torrents/info: the request fails, the torrent is unknown, or save_path is
\* mapped into this process's view
GetInfo(r) ==
  /\ pc[r] = "info"
  /\ \E http \in BOOLEAN :
       IF http /\ body[r].downloadId \in DOMAIN Torrents
         THEN /\ savePath' = [savePath EXCEPT ![r] =
                   applyPathMappings(Torrents[body[r].downloadId].save_path, cfgPathMappings)]
              /\ pc' = [pc EXCEPT ![r] = "files"]
              /\ UNCHANGED << ack, result, failPc, hist >>
         ELSE Catch(r, "info") /\ UNCHANGED savePath
  /\ UNCHANGED << fs, body, albumPath, files, cur, originalDir, stack, failed,
                  faultsLeft, nreq, overlap, probe >>

Frame(dir, base) == [dir |-> dir, base |-> base, entries |-> {}]

\* files.data.map((f) => path.join(savePath, f.name))
fileNames(sp, names) == [k \in 1..Len(names) |-> pathJoin(sp, names[k])]

\* torrents/files: the request fails, the list is empty, or the common parent
\* of the files is the source directory; the handler then calls
\* linkExtrasRecursive(originalDir, albumPath)
GetFiles(r) ==
  /\ pc[r] = "files"
  /\ \E http \in BOOLEAN :
       LET names == Torrents[body[r].downloadId].files
           commonPrefix == findCommonParentDir(fileNames(savePath[r], names))
       IN  IF http /\ Len(names) > 0 /\ Truthy(commonPrefix)
             THEN /\ originalDir' = [originalDir EXCEPT ![r] = commonPrefix.str]
                  /\ stack' = [stack EXCEPT ![r] = << Frame(commonPrefix.str, EmptyStr) >>]
                  /\ pc' = [pc EXCEPT ![r] = "ln_readdir"]
                  /\ UNCHANGED << ack, result, failPc, hist >>
             ELSE Catch(r, "files") /\ UNCHANGED << originalDir, stack >>
  /\ UNCHANGED << fs, body, albumPath, files, cur, savePath, failed, faultsLeft, nreq, overlap, probe >>

----------------------------------------------------------------------------
(* linkExtrasRecursive *)

Top(r) == stack[r][Len(stack[r])]
SetTop(r, fr) == [stack[r] EXCEPT ![Len(stack[r])] = fr]

\* const entries = await fs.readdir(originalDir, {withFileTypes: true}) of the
\* innermost activation: a failure propagates through every caller to the
\* handler
LnReaddir(r) ==
  /\ pc[r] = "ln_readdir"
  /\ LET p == FsPath(Top(r).dir)
     IN  \/ /\ readdirOk(fs, p)
            /\ stack' = [stack EXCEPT ![r] = SetTop(r, [Top(r) EXCEPT !.entries = readdirTypes(fs, p)])]
            /\ pc' = [pc EXCEPT ![r] = "ln_loop"]
            /\ UNCHANGED << ack, result, failPc, hist, failed, faultsLeft >>
         \/ /\ ~readdirOk(fs, p) \/ MayFault
            /\ IF readdirOk(fs, p) THEN Fault ELSE UNCHANGED faultsLeft
            /\ NoteFailure(r, "readdir", Top(r).dir)
            /\ Catch(r, "ln_readdir")
            /\ UNCHANGED stack
  /\ UNCHANGED << fs, body, albumPath, files, cur, savePath, originalDir, nreq, overlap, probe >>

\* the test of the linker without the classification
shouldLink_AnyFile(entry) == entry.kind = "file"

\* else if (entry.isFile() && isExtraFile(entry.name))
shouldLink(entry) == entry.kind = "file" /\ isExtraFile(entry.name)

\* the loop without the recursive call: a directory entry is skipped
LnEntry_FlatOnly(r) ==
  /\ pc[r] = "ln_loop"
  /\ \E entry \in Top(r).entries :
       LET fr == [Top(r) EXCEPT !.entries = @ \ {entry}]
           entryPath == pathJoin(fr.dir, entry.name)
           destFile == flatName(fr.base, entry.name)
       IN  IF shouldLink(entry)
             THEN /\ stack' = [stack EXCEPT ![r] = SetTop(r, fr)]
                  /\ cur' = [cur EXCEPT ![r] = [NoCur EXCEPT !.entryPath = entryPath,
                                                             !.dest = pathJoin(albumPath[r], destFile)]]
                  /\ pc' = [pc EXCEPT ![r] = "ln_unlink"]
           ELSE /\ stack' = [stack EXCEPT ![r] = SetTop(r, fr)]
                /\ UNCHANGED << cur, pc >>
  /\ UNCHANGED << fs, body, albumPath, files, savePath, originalDir, ack, result,
                  failPc, failed, hist, faultsLeft, nreq, overlap, probe >>

\* the loop without the await of the nested call: the next entry of any
\* activation is started while the nested ones are still running
LnEntry_FanOut(r) ==
  /\ pc[r] = "ln_loop"
  /\ \E i \in 1..Len(stack[r]) : \E entry \in stack[r][i].entries :
       LET fr == [stack[r][i] EXCEPT !.entries = @ \ {entry}]
           st == [stack[r] EXCEPT ![i] = fr]
           entryPath == pathJoin(fr.dir, entry.name)
           destFile == flatName(fr.base, entry.name)
       IN  IF entry.kind = "dir"
             THEN /\ stack' = [stack EXCEPT ![r] = Append(st, Frame(entryPath, destFile))]
                  /\ pc' = [pc EXCEPT ![r] = "ln_readdir"]
                  /\ UNCHANGED cur
           ELSE IF shouldLink(entry)
             THEN /\ stack' = [stack EXCEPT ![r] = st]
                  /\ cur' = [cur EXCEPT ![r] = [NoCur EXCEPT !.entryPath = entryPath,
                                                             !.dest = pathJoin(albumPath[r], destFile)]]
                  /\ pc' = [pc EXCEPT ![r] = "ln_unlink"]
           ELSE /\ stack' = [stack EXCEPT ![r] = st]
                /\ UNCHANGED << cur, pc >>
  /\ UNCHANGED << fs, body, albumPath, files, savePath, originalDir, ack, result,
                  failPc, failed, hist, faultsLeft, nreq, overlap, probe >>

\* the next entry of the innermost activation: a directory starts a nested
\* activation, an extra file goes on to unlink and link, anything else is
\* skipped
LnEntry(r) ==
  /\ pc[r] = "ln_loop"
  /\ \E entry \in Top(r).entries :
       LET fr == [Top(r) EXCEPT !.entries = @ \ {entry}]
           entryPath == pathJoin(fr.dir, entry.name)
           destFile == flatName(fr.base, entry.name)
       IN  IF entry.kind = "dir"
             THEN /\ stack' = [stack EXCEPT ![r] = Append(SetTop(r, fr), Frame(entryPath, destFile))]
                  /\ pc' = [pc EXCEPT ![r] = "ln_readdir"]
                  /\ UNCHANGED cur
           ELSE IF shouldLink(entry)
             THEN /\ stack' = [stack EXCEPT ![r] = SetTop(r, fr)]
                  /\ cur' = [cur EXCEPT ![r] = [NoCur EXCEPT !.entryPath = entryPath,
                                                             !.dest = pathJoin(albumPath[r], destFile)]]
                  /\ pc' = [pc EXCEPT ![r] = "ln_unlink"]
           ELSE /\ stack' = [stack EXCEPT ![r] = SetTop(r, fr)]
                /\ UNCHANGED << cur, pc >>
  /\ UNCHANGED << fs, body, albumPath, files, savePath, originalDir, ack, result,
                  failPc, failed, hist, faultsLeft, nreq, overlap, probe >>

\* try { await fs.unlink(dest) } catch {}
LnUnlink(r) ==
  /\ pc[r] = "ln_unlink"
  /\ LET p == FsPath(cur[r].dest)
     IN  \/ /\ unlinkOk(fs, p)
            /\ fs' = unlink(fs, p)
            /\ UNCHANGED << failed, faultsLeft >>
         \/ /\ ~unlinkOk(fs, p)
            /\ UNCHANGED << fs, failed, faultsLeft >>
         \/ /\ unlinkOk(fs, p) /\ MayFault
            /\ Fault
            /\ NoteFailure(r, "unlink_dest", cur[r].dest)
            /\ UNCHANGED fs
  /\ pc' = [pc EXCEPT ![r] = "ln_link"]
  /\ UNCHANGED << body, albumPath, files, cur, savePath, originalDir, stack, ack,
                  result, failPc, hist, nreq, overlap, probe >>

\* await fs.link(entryPath, dest), outside any try: a failure propagates
\* through every caller to the handler
LnLink(r) ==
  /\ pc[r] = "ln_link"
  /\ LET src == FsPath(cur[r].entryPath)
         dst == FsPath(cur[r].dest)
     IN  \/ /\ linkOk(fs, src, dst)
            /\ fs' = link(fs, src, dst)
            /\ pc' = [pc EXCEPT ![r] = "ln_loop"]
            /\ UNCHANGED << ack, result, failPc, hist, failed, faultsLeft >>
         \/ /\ ~linkOk(fs, src, dst) \/ MayFault
            /\ IF linkOk(fs, src, dst) THEN Fault ELSE UNCHANGED faultsLeft
            /\ NoteFailure(r, "link", cur[r].entryPath)
            /\ Catch(r, "ln_link")
            /\ UNCHANGED fs
  /\ UNCHANGED << body, albumPath, files, cur, savePath, originalDir, stack, nreq, overlap, probe >>

\* the loop of the innermost activation is over: it returns to its caller's
\* loop, and the outermost one to the handler, which sends res.status(200)
LnReturn(r) ==
  /\ pc[r] = "ln_loop"
  /\ Top(r).entries = {}
  /\ stack' = [stack EXCEPT ![r] = Front(@)]
  /\ IF Len(stack[r]) = 1
       THEN Respond(r, 200, "Done", "", [hist[r] EXCEPT !.end = fs])
       ELSE UNCHANGED << pc, ack, result, failPc, hist >>
  /\ UNCHANGED << fs, body, albumPath, files, cur, savePath, originalDir, failed,
                  faultsLeft, nreq, overlap, probe >>

----------------------------------------------------------------------------
(* Specifications *)

Next ==
  \E r \in Reqs :
    \/ Receive(r)
    \/ RmReaddir(r)
    \/ RmLstat(r)
    \/ RmUnlink(r)
    \/ RmReturn(r)
    \/ Login(r)
    \/ GetInfo(r)
    \/ GetFiles(r)
    \/ LnReaddir(r)
    \/ LnEntry(r)
    \/ LnUnlink(r)
    \/ LnLink(r)
    \/ LnReturn(r)

\* one delivery, I/O failures possible
Spec == Init /\ [][Next]_vars

\* the same notification delivered MaxRuns times in succession, no I/O failure
SpecTwice == InitTwice /\ [][Next]_vars

\* a source tree with an extra at its root and one in a subdirectory, an album
\* with or without stale extras
ConcFilesystems ==
  {Merge({ ( << n_w, n_t, n_cjpg >> :> File(4) ),
           ( << n_w, n_t, n_d >> :> Dir ) @@ ( << n_w, n_t, n_d, n_lLOG >> :> File(5) ) } \cup A) :
     A \in SUBSET { ( << n_m, n_a, n_cjpg >> :> File(3) ) @@ ( << n_m, n_a, n_otxt >> :> File(9) ) }}

\* the same notification delivered twice, the second delivery dispatched
\* while the first is in progress; no injected I/O failure
InitConc ==
  /\ fs \in ConcFilesystems
  /\ InitRuns
  /\ faultsLeft = 0
  /\ nreq = 2
  /\ overlap = TRUE
  /\ probe = NoProbe

SpecConc == InitConc /\ [][Next]_vars

\* one delivery on one of these trees, I/O failures possible
InitLive ==
  /\ fs \in ConcFilesystems
  /\ InitRuns
  /\ faultsLeft \in 0..MaxFaults
  /\ nreq = 1
  /\ overlap = FALSE
  /\ probe = NoProbe

\* one delivery in which every awaited call eventually completes or fails:
\* a handler suspended at an await is eventually resumed
SpecLive == InitLive /\ [][Next]_vars /\ WF_vars(Next)

----------------------------------------------------------------------------
(* Direct calls of the pure functions *)

\* nothing is delivered; one call of a pure function is made
InitProbe ==
  /\ fs = BaseFs
  /\ InitRuns
  /\ faultsLeft = 0
  /\ nreq = 0
  /\ overlap = FALSE
  /\ probe = NoProbe

n_ab == << "a", "b" >>
ProbeDirNames == {n_a, n_ab}
ProbeDirs == UNION {[1..n -> ProbeDirNames] : n \in 0..MaxDepth}
ProbeDirLists == UNION {[1..n -> ProbeDirs] : n \in 1..MaxPaths}

\* findCommonParentDir(paths) for the files named 1.mp3 of the directories dl
CallFindCommonParentDir ==
  /\ probe.fn = ""
  /\ \E dl \in ProbeDirLists :
       LET paths == [k \in 1..Len(dl) |-> AbsPath(Append(dl[k], n_track))]
       IN  probe' = [fn |-> "findCommonParentDir", args |-> paths, given |-> dl,
                     value |-> findCommonParentDir(paths)]
  /\ UNCHANGED << fs, pc, body, albumPath, files, cur, savePath, originalDir, stack,
                  ack, result, failPc, failed, hist, faultsLeft, nreq, overlap >>

SpecResolver == InitProbe /\ [][CallFindCommonParentDir]_vars

ProbeInputs ==
  { << SEP, "q", SEP, "t" >>, << SEP, "q", "q", SEP, "t" >>,
    << SEP, "w", SEP, "q" >>, << SEP, "x" >> }
ProbeFroms == { << SEP, "q" >>, << SEP, "q", "q" >>, << SEP, "w" >> }
ProbeTos == { << SEP, "w" >>, << SEP, "q" >>, << SEP, "w", DOLLAR, DOLLAR >>, << SEP, DOLLAR, "&" >> }
ProbeRules == [from : ProbeFroms, to : ProbeTos]
ProbeRuleLists == UNION {[1..n -> ProbeRules] : n \in 0..MaxRules}

\* applyPathMappings(inputPath, mappings)
CallApplyPathMappings ==
  /\ probe.fn = ""
  /\ \E inputPath \in ProbeInputs : \E mappings \in ProbeRuleLists :
       probe' = [fn |-> "applyPathMappings", args |-> << inputPath >>, given |-> mappings,
                 value |-> StrVal(applyPathMappings(inputPath, mappings))]
  /\ UNCHANGED << fs, pc, body, albumPath, files, cur, savePath, originalDir, stack,
                  ack, result, failPc, failed, hist, faultsLeft, nreq, overlap >>

SpecMapper == InitProbe /\ [][CallApplyPathMappings]_vars

----------------------------------------------------------------------------
(* Vocabulary of the properties *)

AlbumDir(r) == FsPath(albumPath[r])
SourceDir(r) == FsPath(originalDir[r])

Under(p, d) == Len(p) > Len(d) /\ SubSeq(p, 1, Len(d)) = d
RelTo(p, d) == SubSeq(p, Len(d) + 1, Len(p))

\* the immediate entries of directory d: name and what the name refers to
Entries(f, d) == {[name |-> Last(q), node |-> f[q]] : q \in Children(f, d)}

\* the tree below directory d
Subtree(f, d) == [p \in {q \in DOMAIN f : Under(q, d)} |-> f[p]]

\* the extras of the tree below d
Extras(f, d) == {p \in DOMAIN f : Under(p, d) /\ f[p].kind = "file" /\ isExtraFile(Last(p))}
NonExtraFiles(f, d) == {p \in DOMAIN f : Under(p, d) /\ f[p].kind = "file" /\ ~isExtraFile(Last(p))}

\* d1-...-dk-f for the relative path d1/.../dk/f
RECURSIVE DashName(_)
DashName(rel) ==
  IF Len(rel) = 1 THEN rel[1] ELSE rel[1] \o << DASH >> \o DashName(Tail(rel))

DistinctFlattened(f, d) ==
  \A p, q \in Extras(f, d) : p # q => DashName(RelTo(p, d)) # DashName(RelTo(q, d))

\* one hard link per extra of the tree below d, under its flattened name
ExpectedLinks(f, d) == {[name |-> DashName(RelTo(p, d)), node |-> f[p]] : p \in Extras(f, d)}

\* the album directory is neither the source directory nor inside it
Outside(a, d) == a # d /\ ~Under(a, d)

RanToDone(r) == pc[r] = "done" /\ result[r] = "Done" /\ failed[r] = {}

\* the request has returned from removeExistingExtras
PastRm(r) ==
  \/ pc[r] \in {"login", "info", "files", "ln_readdir", "ln_loop", "ln_unlink", "ln_link"}
  \/ pc[r] = "done" /\ result[r] = "Done"
  \/ pc[r] = "done" /\ failPc[r] \in {"login", "info", "files", "ln_readdir", "ln_link"}

\* the request has entered linkExtrasRecursive
InLink(r) ==
  \/ pc[r] \in {"ln_readdir", "ln_loop", "ln_unlink", "ln_link"}
  \/ pc[r] = "done" /\ result[r] = "Done"
  \/ pc[r] = "done" /\ failPc[r] \in {"ln_readdir", "ln_link"}

----------------------------------------------------------------------------
(* Properties *)

\* C1 (as stated): two failure-free runs in succession over an unchanged source
\* tree leave the album directory, after the second run, with the same entry
\* names referring to the same files as after the first run.
C1_IdempotentAnyTree ==
  \A r \in Reqs : \A q \in Reqs :
    ( /\ q = r + 1
      /\ RanToDone(r) /\ RanToDone(q)
      /\ Subtree(hist[r].start, SourceDir(r)) = Subtree(hist[r].end, SourceDir(r))
      /\ Subtree(hist[r].start, SourceDir(r)) = Subtree(hist[q].end, SourceDir(q))
      /\ SourceDir(q) = SourceDir(r) )
    => Entries(hist[q].end, AlbumDir(q)) = Entries(hist[r].end, AlbumDir(r))

\* C1 (amended): the same, for a source tree whose extras have pairwise
\* distinct flattened names and an album directory outside the source tree.
C1_IdempotentDistinctNames ==
  \A r \in Reqs : \A q \in Reqs :
    ( /\ q = r + 1
      /\ RanToDone(r) /\ RanToDone(q)
      /\ Subtree(hist[r].start, SourceDir(r)) = Subtree(hist[r].end, SourceDir(r))
      /\ Subtree(hist[r].start, SourceDir(r)) = Subtree(hist[q].end, SourceDir(q))
      /\ SourceDir(q) = SourceDir(r)
      /\ Outside(AlbumDir(r), SourceDir(r))
      /\ DistinctFlattened(hist[r].start, SourceDir(r)) )
    => Entries(hist[q].end, AlbumDir(q)) = Entries(hist[r].end, AlbumDir(r))

\* two runs over a tree with nested extras and an album that held stale extras
C1_Witness ==
  /\ RanToDone(1) /\ RanToDone(2)
  /\ Outside(AlbumDir(1), SourceDir(1))
  /\ DistinctFlattened(hist[1].start, SourceDir(1))
  /\ Cardinality(Extras(hist[1].start, SourceDir(1))) >= 3
  /\ << n_m, n_a, n_otxt >> \in DOMAIN hist[1].start
  /\ AlbumDir(1) = << n_m, n_a >>
  /\ Cardinality(Entries(hist[2].end, AlbumDir(2))) >= 4

\* C2: from an empty album directory outside the source tree, a failure-free
\* walk over a source tree whose extras have pairwise distinct flattened
\* names ends with exactly one entry per source extra, named d1-...-dk-f and
\* hard-linked to it, and nothing else, whatever the enumeration order.
C2_FlattenedLinks ==
  \A r \in Reqs :
    ( /\ RanToDone(r)
      /\ Children(hist[r].rm, AlbumDir(r)) = {}
      /\ Outside(AlbumDir(r), SourceDir(r))
      /\ DistinctFlattened(hist[r].rm, SourceDir(r)) )
    => Entries(hist[r].end, AlbumDir(r)) = ExpectedLinks(hist[r].rm, SourceDir(r))

\* the scenario of the specification and a doubly nested extra: an extra at the
\* root, one in d, one in d/e and a non-extra in d, linked into an empty album
C2_Witness ==
  /\ RanToDone(1)
  /\ Children(hist[1].rm, AlbumDir(1)) = {}
  /\ DistinctFlattened(hist[1].rm, SourceDir(1))
  /\ Cardinality(Extras(hist[1].rm, SourceDir(1))) = 3
  /\ NonExtraFiles(hist[1].rm, SourceDir(1)) # {}
  /\ \E p \in Extras(hist[1].rm, SourceDir(1)) : Len(RelTo(p, SourceDir(1))) = 3
  /\ Cardinality(Entries(hist[1].end, AlbumDir(1))) = 3

\* C3: a run whose source resolution fails (unknown download identifier,
\* empty torrent file list, no common ancestor) ends Failed with no file of
\* the album directory deleted or created, because stale-extras removal
\* starts only once the source directory is resolved.
SourceResolutionFailed(r) ==
  /\ pc[r] = "done" /\ result[r] = "Failed"
  /\ \/ failPc[r] = "info" /\ body[r].downloadId \notin DOMAIN Torrents
     \/ /\ failPc[r] = "files"
        /\ LET names == Torrents[body[r].downloadId].files
           IN  \/ Len(names) = 0
               \/ ~Truthy(findCommonParentDir(fileNames(savePath[r], names)))

C3_SourceFailureLeavesAlbum ==
  \A r \in Reqs :
    SourceResolutionFailed(r)
    => Subtree(hist[r].end, AlbumDir(r)) = Subtree(hist[r].start, AlbumDir(r))

\* the directory segments of a track path
DirSegments(p) == Front(Segments(p))

\* no directory name is shared by all the paths below the root
NoSharedSegment(paths) ==
  /\ Len(paths) > 0
  /\ LET first == DirSegments(paths[1])
     IN  \/ first = << >>
         \/ \E k \in 1..Len(paths) :
              LET d == DirSegments(paths[k])
              IN  IF d = << >> THEN TRUE ELSE d[1] # first[1]

Validated(b) == b.eventType # "Test" /\ ~InvalidPayload(b)

\* C4: a run whose track paths share no path segment beyond the root ends
\* Failed at album resolution, with no stale-extras removal, no link and no
\* change to the filesystem.
C4_NoCommonAncestorFails ==
  \A r \in Reqs :
    (pc[r] # "idle" /\ Validated(body[r]) /\ NoSharedSegment(trackPaths(body[r])))
    => /\ pc[r] = "done" /\ result[r] = "Failed" /\ failPc[r] = "album"
       /\ fs = hist[r].start

\* C5: from the start of the walk on, every entry of the album directory whose
\* name does not classify as an extra, and everything below the album's
\* subdirectories, is as it was when linkExtrasRecursive was called.
C5_LinkerKeepsNonExtras ==
  \A r \in Reqs :
    InLink(r) =>
      \A p \in DOMAIN fs \cup DOMAIN hist[r].rm :
        Under(p, AlbumDir(r)) =>
          \/ Front(p) = AlbumDir(r) /\ isExtraFile(Last(p))
          \/ p \in DOMAIN fs /\ p \in DOMAIN hist[r].rm /\ fs[p] = hist[r].rm[p]

\* a walk that replaced the stale c.jpg a failed deletion had left behind, in an
\* album that holds a track and a subdirectory
C5_Witness ==
  /\ pc[1] = "done" /\ result[1] = "Done"
  /\ AlbumDir(1) = << n_m, n_a >>
  /\ << n_m, n_a, n_track >> \in DOMAIN fs
  /\ << n_m, n_a, n_s, n_xlog >> \in DOMAIN fs
  /\ << n_m, n_a, n_cjpg >> \in DOMAIN hist[1].rm
  /\ hist[1].rm[<< n_m, n_a, n_cjpg >>] = File(3)
  /\ << n_m, n_a, n_cjpg >> \in DOMAIN fs
  /\ fs[<< n_m, n_a, n_cjpg >>] = File(4)
  /\ Cardinality(Entries(fs, AlbumDir(1))) >= 5

RmFailures(r) == {x \in failed[r] : x.op \in {"lstat", "unlink"}}

\* the immediate entries of the album that are regular files and extras
StaleExtras(f, a) == {p \in Children(f, a) : f[p].kind = "file" /\ isExtraFile(Last(p))}

\* C6: when no inspection or deletion failed, removeExistingExtras has removed
\* exactly the immediate regular-file extras of the album directory and left
\* every other path of the filesystem as it was.
C6_RemoverExact ==
  \A r \in Reqs :
    (PastRm(r) /\ RmFailures(r) = {}) =>
      hist[r].rm = [p \in DOMAIN hist[r].start \ StaleExtras(hist[r].start, AlbumDir(r))
                      |-> hist[r].start[p]]

\* a pass over an album with two stale extras, a track, a subdirectory holding
\* an extra and a directory named like an extra
C6_Witness ==
  /\ PastRm(1) /\ RmFailures(1) = {}
  /\ AlbumDir(1) = << n_m, n_a >>
  /\ Cardinality(StaleExtras(hist[1].start, AlbumDir(1))) = 2
  /\ << n_m, n_a, n_track >> \in DOMAIN hist[1].rm
  /\ << n_m, n_a, n_s, n_xlog >> \in DOMAIN hist[1].rm
  /\ IsDir(hist[1].rm, << n_m, n_a, n_dlLOG >>)
  /\ StaleExtras(hist[1].rm, AlbumDir(1)) = {}

\* the source extra p has its hard link in the album directory
Linked(f, r, p) ==
  LET dst == Append(AlbumDir(r), DashName(RelTo(p, SourceDir(r))))
  IN  dst \in DOMAIN f /\ f[dst] = f[p]

\* C7: when the link of one source extra fails, every other source extra whose
\* own link would succeed is linked into the album by the end of the run.
C7_LinkFailureSkipsOneFile ==
  \A r \in Reqs :
    ( /\ pc[r] = "done"
      /\ \E x \in failed[r] : x.op = "link" /\ failed[r] = {x}
      /\ Outside(AlbumDir(r), SourceDir(r))
      /\ DistinctFlattened(hist[r].start, SourceDir(r)) )
    => \A p \in Extras(hist[r].start, SourceDir(r)) :
         \/ \E x \in failed[r] : FsPath(x.path) = p
         \/ IsDir(hist[r].start, Append(AlbumDir(r), DashName(RelTo(p, SourceDir(r)))))
         \/ Linked(hist[r].end, r, p)

\* C8: when reading one subdirectory of the source tree fails, the extras
\* outside that subdirectory are linked into the album by the end of the run.
C8_ReaddirFailureSkipsOneSubtree ==
  \A r \in Reqs :
    ( /\ pc[r] = "done"
      /\ \E x \in failed[r] :
           x.op = "readdir" /\ failed[r] = {x} /\ Under(FsPath(x.path), SourceDir(r))
      /\ failPc[r] = "ln_readdir"
      /\ Outside(AlbumDir(r), SourceDir(r))
      /\ DistinctFlattened(hist[r].start, SourceDir(r)) )
    => \A p \in Extras(hist[r].start, SourceDir(r)) :
         \/ \E x \in failed[r] : Under(p, FsPath(x.path))
         \/ IsDir(hist[r].start, Append(AlbumDir(r), DashName(RelTo(p, SourceDir(r)))))
         \/ Linked(hist[r].end, r, p)

\* C9: a failed lstat or unlink of the remover never ends the run: the error
\* the handler catches, if any, is thrown later; and once the pass is over
\* every regular-file extra of the album whose own lstat and unlink did not
\* fail is gone.
C9_RemoverAbsorbsFailures ==
  \A r \in Reqs :
    RmFailures(r) # {} =>
      /\ pc[r] = "done" =>
           \/ result[r] = "Done"
           \/ failPc[r] \in {"login", "info", "files", "ln_readdir", "ln_link"}
      /\ PastRm(r) =>
           \A p \in StaleExtras(hist[r].start, AlbumDir(r)) :
             \/ \E x \in RmFailures(r) : FsPath(x.path) = p
             \/ p \notin DOMAIN hist[r].rm

\* a run that failed to delete one of two stale extras, deleted the other and
\* went on to link the source extras
C9_Witness ==
  /\ pc[1] = "done" /\ result[1] = "Done"
  /\ RmFailures(1) # {}
  /\ Cardinality(StaleExtras(hist[1].start, AlbumDir(1))) = 2
  /\ Cardinality(StaleExtras(hist[1].rm, AlbumDir(1))) = 1
  /\ Extras(hist[1].start, SourceDir(1)) # {}
  /\ \A p \in Extras(hist[1].start, SourceDir(1)) : Linked(fs, 1, p)

\* C10: the acknowledgment is a client error exactly for a non-Test
\* notification that fails validation; every other notification, whatever
\* fails while it is processed, is acknowledged once with success.
C10_OnlyInvalidInputChangesAck ==
  \A r \in Reqs :
    pc[r] = "done" =>
      IF body[r].eventType # "Test" /\ InvalidPayload(body[r])
        THEN ack[r] = << 400 >>
        ELSE ack[r] = << 200 >>

\* validated notifications whose processing failed at the link and were
\* acknowledged with success
C10_Witness ==
  /\ pc[1] = "done" /\ Validated(body[1])
  /\ result[1] = "Failed" /\ failPc[1] = "ln_link"
  /\ ack[1] = << 200 >>

\* C11: a non-Test notification without a download identifier, or whose
\* track list is missing or empty, is acknowledged with a client error and
\* nothing is resolved, queried or touched for it.
C11_MalformedRejected ==
  \A r \in Reqs :
    ( /\ pc[r] # "idle"
      /\ body[r].eventType # "Test"
      /\ \/ body[r].downloadId = EmptyStr
         \/ ~body[r].hasTracks
         \/ body[r].trackFiles = << >> )
    => /\ pc[r] = "done" /\ ack[r] = << 400 >> /\ result[r] = "Rejected"
       /\ fs = hist[r].start

\* C15: a Test notification, with or without track list and download
\* identifier, is acknowledged with success and nothing is resolved, queried
\* or touched for it.
C15_TestShortCircuits ==
  \A r \in Reqs :
    (pc[r] # "idle" /\ body[r].eventType = "Test")
    => /\ pc[r] = "done" /\ ack[r] = << 200 >> /\ result[r] = "Test"
       /\ albumPath[r] = EmptyStr /\ savePath[r] = EmptyStr /\ originalDir[r] = EmptyStr
       /\ failed[r] = {} /\ files[r] = {} /\ stack[r] = << >>
       /\ fs = hist[r].start /\ hist[r].end = hist[r].start

\* a Test notification that carries neither tracks nor a download identifier
C15_Witness ==
  /\ pc[1] = "done" /\ body[1].eventType = "Test"
  /\ ~body[1].hasTracks /\ body[1].downloadId = EmptyStr
  /\ ack[1] = << 200 >>

\* the deepest directory all the directories dl lie in or are, as segments
CommonDir(dl) ==
  LET N == {n \in 0..Len(dl[1]) :
              \A k \in 1..Len(dl) : Len(dl[k]) >= n /\ SubSeq(dl[k], 1, n) = SubSeq(dl[1], 1, n)}
      n == CHOOSE x \in N : \A y \in N : y <= x
  IN  SubSeq(dl[1], 1, n)

\* C13: for files whose directories have the deepest common directory D below
\* the root, findCommonParentDir returns the path of D, compared segment by
\* segment; for a single file it returns the file's directory.
C13_DeepestCommonDirectory ==
  probe.fn = "findCommonParentDir" =>
    /\ CommonDir(probe.given) # << >> =>
         probe.value = StrVal(AbsPath(CommonDir(probe.given)))
    /\ Len(probe.given) = 1 => probe.value = StrVal(AbsPath(probe.given[1]))

\* /a/a/1.mp3 and /a/ab/a/1.mp3: the directories share the segment a, and the
\* longer string prefix /a/a is not a common directory
C13_Witness ==
  /\ probe.fn = "findCommonParentDir"
  /\ probe.given = << << n_a, n_a >>, << n_a, n_ab, n_a >> >>
  /\ probe.value = StrVal(<< SEP, "a" >>)

\* the first rule of the list whose from is a prefix of the path, if any
FirstMatching(inputPath, mappings) ==
  LET I == {i \in 1..Len(mappings) : startsWith(inputPath, mappings[i].from)}
  IN  IF I = {} THEN 0 ELSE CHOOSE i \in I : \A j \in I : i <= j

\* C14: the value of applyPathMappings is the path with its leading `from`
\* replaced by `to` for the first rule whose `from` is a prefix of the path,
\* and the path itself when no rule matches.
C14_FirstRuleOnly ==
  probe.fn = "applyPathMappings" =>
    LET inputPath == probe.args[1]
        i == FirstMatching(inputPath, probe.given)
    IN  probe.value =
          StrVal(IF i = 0 THEN inputPath
                 ELSE probe.given[i].to \o
                      SubSeq(inputPath, Len(probe.given[i].from) + 1, Len(inputPath)))

RmPcs == {"rm_readdir", "rm_loop", "rm_unlink"}
LnPcs == {"ln_readdir", "ln_loop", "ln_unlink", "ln_link"}

\* C16: the filesystem calls of one run form one chain: a run in its walk
\* never goes back to deleting stale files, the remover creates nothing, and
\* the pending entries of a directory stay as they are until every nested
\* activation has returned (only the innermost activation advances).
C16_SequentialChain ==
  [][ \A r \in Reqs :
        /\ pc[r] \in LnPcs => pc'[r] \notin RmPcs
        /\ (pc[r] \in RmPcs /\ ~overlap) => DOMAIN fs' \subseteq DOMAIN fs
        /\ \A i \in 1..(Len(stack[r]) - 1) :
             i <= Len(stack'[r]) /\ stack'[r][i] = stack[r][i] ]_vars

\* a link of d/e is in flight, after the stale extras were deleted, while the
\* activations for d and for the source root still have entries to visit
C16_Witness ==
  /\ pc[1] = "ln_link"
  /\ Len(stack[1]) = 3
  /\ stack[1][1].entries # {} /\ stack[1][2].entries # {}
  /\ StaleExtras(hist[1].start, AlbumDir(1)) # {}
  /\ StaleExtras(fs, AlbumDir(1)) = {}

\* the regular files below directory d
FilesBelow(f, d) == [p \in {q \in DOMAIN f : Under(q, d) /\ f[q].kind = "file"} |-> f[p]]

\* C17: the files below the resolved source directory are the same after the
\* run as when the notification arrived, wherever the album directory lies.
C17_SourceTreeUntouched ==
  \A r \in Reqs :
    (pc[r] = "done" /\ originalDir[r] # EmptyStr)
    => FilesBelow(hist[r].end, SourceDir(r)) = FilesBelow(hist[r].start, SourceDir(r))

\* the album entries the walk of run r has created or replaced
Created(r) ==
  {p \in Children(fs, AlbumDir(r)) : p \notin DOMAIN hist[r].rm \/ hist[r].rm[p] # fs[p]}

\* the files of the torrent as qBittorrent reports them
ReportedFiles(r) ==
  LET names == Torrents[body[r].downloadId].files
  IN  {FsPath(pathJoin(savePath[r], names[k])) : k \in 1..Len(names)}

\* C18: every link the walk creates in the album is a link to a
\* file of the torrent's reported file list.
C18_LinksOnlyReportedFiles ==
  \A r \in Reqs :
    InLink(r) =>
      \A p \in Created(r) :
        \E q \in ReportedFiles(r) : q \in DOMAIN fs /\ fs[q] = fs[p]

\* C19: a notification is never answered twice, a finished handler has
\* answered once, and when every awaited call eventually completes or fails
\* every received notification is eventually answered.
C19_ExactlyOneAck ==
  /\ [](\A r \in Reqs : Len(ack[r]) <= 1 /\ (pc[r] = "done" => Len(ack[r]) = 1))
  /\ \A r \in Reqs : (pc[r] # "idle") ~> (pc[r] = "done" /\ Len(ack[r]) = 1)

\* a run answered once after its walk was aborted by a failed readdir
C19_Witness ==
  /\ pc[1] = "done" /\ result[1] = "Failed" /\ failPc[1] = "ln_readdir"
  /\ Len(stack[1]) >= 2
  /\ Len(ack[1]) = 1

BothDone == \A r \in 1..2 : pc[r] = "done"

\* C12: two overlapping runs on the same album can leave a source extra
\* without its link (C12_Witness); that happens only through a run that was
\* aborted: when both overlapping runs complete their walk, every source
\* extra has its link in the album.
C12_BothCompleteAllLinked ==
  ( /\ overlap /\ BothDone
    /\ result[1] = "Done" /\ result[2] = "Done"
    /\ Outside(AlbumDir(1), SourceDir(1))
    /\ DistinctFlattened(fs, SourceDir(1)) )
  => \A p \in Extras(fs, SourceDir(1)) : Linked(fs, 1, p)

\* both overlapping runs have finished, one of them completed its walk, the
\* other was aborted by a link that failed because of the first; the source
\* tree is as it was, and an extra a single run would have linked has no link
C12_Witness ==
  /\ overlap /\ BothDone
  /\ \E r \in 1..2 : result[r] = "Done"
  /\ \A r \in 1..2 : result[r] = "Done" \/ failPc[r] = "ln_link"
  /\ AlbumDir(1) = << n_m, n_a >> /\ SourceDir(1) = << n_w, n_t >> /\ SourceDir(2) = << n_w, n_t >>
  /\ Subtree(fs, SourceDir(1)) = Subtree(hist[1].start, SourceDir(1))
  /\ DistinctFlattened(fs, SourceDir(1))
  /\ \A p \in Children(hist[1].start, AlbumDir(1)) : hist[1].start[p].kind = "file"
  /\ \E p \in Extras(fs, SourceDir(1)) : ~Linked(fs, 1, p)

====
